---- MODULE Spec2Model ----
(***************************************************************************)
(* The durable delayed-action scheduler of bot_test.py: the table          *)
(* scheduled_messages, schedule_message / mark_message_delivered /         *)
(* purge_user, the dispatch loop scheduler_worker with                     *)
(* process_scheduled_message, and the user-interaction handlers that call  *)
(* schedule_message.                                                       *)
(*                                                                         *)
(* The bot is one asyncio process: a coroutine runs without interruption   *)
(* between two awaits that really suspend (Telegram calls, asyncio.sleep). *)
(* Every action below is one such uninterrupted stretch of code.  Time is  *)
(* counted in whole seconds, which is what isoformat(timespec="seconds")   *)
(* stores and what the poll's string comparison orders.                    *)
(***************************************************************************)
EXTENDS Integers, Sequences, FiniteSets, TLC

(***************************************************************************)
(* Bounds of the model.                                                    *)
(***************************************************************************)
\* number of user interactions (button presses, /start) explored
MaxCalls == 2
\* number of /start commands explored
MaxStarts == 1
\* number of times the clock is advanced
MaxTicks == 2
\* number of times the clock is advanced along whole funnel chains
MaxChainTicks == 7
\* number of times the process is stopped and started again
MaxRestarts == 1
\* number of store operations that fail
MaxFails == 1
MaxTokens == 2
MaxChecks == 2
MaxTokenTime == 602
\* stand-in for the LIMIT 50 of the poll query (src/bot_test.py:256), made
\* small so that a poll can find more due rows than one batch holds
BatchLimit == 2

Users == {1, 2}
\* message ids the Telegram API hands back for sent messages
MsgIds == {101, 102}

(***************************************************************************)
(* Program constants.                                                      *)
(***************************************************************************)
MINUTES_20 == 1200
HOUR == 3600
DAY == 86400
WEEK == 604800
TEST_SECONDS == 10
TOKEN_TTL == 600
SECRET == "ajd82jhAHD828hd82hds9"

\* payload column of a row scheduled without payload (Python None, SQL NULL)
NoPayload == "NULL"

\* str(message_id)
Str(m) == IF m = 101 THEN "101" ELSE "102"

\* the values of the environment the process can be started with
Modes == {"prod", "test"}
FastRaws == {"", "1"}

\* a wider set of environments, for the time policy alone
PolicyModes == {"prod", "test", "dev"}
PolicyRaws == {"", "0", "1", "2", "x"}

\* delays and kinds a caller can pass to schedule_message
Delays == {5, 3600}
PolicyKinds == {"case_story", "chat_invite"}

VARIABLES
    MODE,              \* os.getenv("MODE", "prod").lower()
    FAST_USER_ID_RAW,  \* os.getenv("FAST_USER_ID", "")
    now,               \* wall clock, seconds
    store,             \* table scheduled_messages: a set of rows
    nextId,            \* next value of the AUTOINCREMENT key
    pc,                \* where scheduler_worker is: "poll", "handler", "sleep"
    batch,             \* rows fetched by the current poll, in fetch order
    idx,               \* position in batch of the row being processed
    calls,             \* user interactions that schedule, so far
    starts,            \* /start commands so far
    lastStart,         \* history: the sender of the last /start, <<>> if none
    restarts,          \* process restarts so far
    lastCall,          \* history: arguments of the last direct schedule_message
    events,            \* table events: the unknown-kind entries, in order
    ticks,             \* clock advances so far
    fetched,           \* history: ids that some poll has fetched
    invoked,           \* history: ids whose handler has been invoked
    invokedTwice,      \* history: ids whose handler has been invoked again
    raised,            \* history: ids whose handler raised
    returned,          \* history: ids whose handler returned normally
    superseded,        \* history: rows matched by a supersede-delete
    purged,            \* history: rows deleted by purge_user
    leftOut,           \* history: ids due at a poll but beyond its LIMIT
    storeErrs,         \* history: the store operations that failed, in order
    issued,            \* secure_pdf_server: tokens handed out, with their user
    checks             \* history: verify_token calls, with time and result

vars == <<MODE, FAST_USER_ID_RAW, now, store, nextId, pc, batch, idx, calls,
          starts, lastStart, restarts, lastCall, events, ticks,
          fetched, invoked, invokedTwice, raised, returned, superseded,
          purged, leftOut, storeErrs, issued, checks>>

config == <<MODE, FAST_USER_ID_RAW>>
worker == <<pc, batch, idx>>
envHist == <<starts, lastStart, restarts, lastCall>>
dispatchHist == <<fetched, invoked, invokedTwice, raised, returned, leftOut>>
pdf == <<issued, checks>>

(***************************************************************************)
(* Time policy.                                                            *)
(***************************************************************************)
\* str.isdigit on the environment values of the model
isdigit(s) == s \in {"0", "1", "2"}

\* the environment values int() accepts: digits, with surrounding blanks
IntParses(s) == s \in {"0", "1", "2", " 1"}

\* int(s) for a string int() accepts
int(s) ==
    CASE s = "0" -> 0
      [] s = "1" -> 1
      [] s = "2" -> 2
      [] s = " 1" -> 1

\* FAST_USER_ID: <<n>> for an integer, <<>> for None
FAST_USER_ID ==
    IF isdigit(FAST_USER_ID_RAW) THEN <<int(FAST_USER_ID_RAW)>> ELSE <<>>

\* TEST_USER_ID of cmd_start: int(os.getenv("FAST_USER_ID", "0") or 0)
TEST_USER_ID == IF FAST_USER_ID_RAW = "" THEN 0 ELSE int(FAST_USER_ID_RAW)

\* mutant: the fast-track id is ignored
is_fast_user_ModeOnly(user_id) ==
    MODE = "test"

is_fast_user(user_id) ==
    IF MODE = "test"
    THEN TRUE
    ELSE FAST_USER_ID # <<>> /\ user_id = FAST_USER_ID[1]

(***************************************************************************)
(* Task store.                                                             *)
(***************************************************************************)
\* mutant: the column default is delivered=1
Row_Delivered(id, user_id, send_at, kind, payload) ==
    [id |-> id, user_id |-> user_id, send_at |-> send_at, kind |-> kind,
     payload |-> payload, delivered |-> 1]

\* mutant: the INSERT leaves the payload column out
Row_NoPayload(id, user_id, send_at, kind, payload) ==
    [id |-> id, user_id |-> user_id, send_at |-> send_at, kind |-> kind,
     payload |-> NoPayload, delivered |-> 0]

\* a row as the INSERT of schedule_message creates it (delivered DEFAULT 0)
Row(id, user_id, send_at, kind, payload) ==
    [id |-> id, user_id |-> user_id, send_at |-> send_at, kind |-> kind,
     payload |-> payload, delivered |-> 0]

\* rows matched by WHERE user_id=? AND kind=? AND delivered=0
UndeliveredOf(st, user_id, kind) ==
    {r \in st : r.user_id = user_id /\ r.kind = kind /\ r.delivered = 0}

\* mutant: the delivered=0 condition of the supersede-delete is missing
DeleteUndelivered_AnyState(st, user_id, kind) ==
    {r \in st : ~(r.user_id = user_id /\ r.kind = kind)}

\* mutant: the kind=? condition of the supersede-delete is missing
DeleteUndelivered_AnyKind(st, user_id, kind) ==
    {r \in st : ~(r.user_id = user_id /\ r.delivered = 0)}

\* mutant: the supersede-delete is missing
DeleteUndelivered_NoDelete(st, user_id, kind) ==
    st

\* DELETE FROM scheduled_messages WHERE user_id=? AND kind=? AND delivered=0
DeleteUndelivered(st, user_id, kind) ==
    st \ UndeliveredOf(st, user_id, kind)

\* mutant: the two delays are swapped
SendAt_Swapped(t, user_id, prod_seconds, test_seconds) ==
    t + (IF is_fast_user(user_id) THEN prod_seconds ELSE test_seconds)

\* send_at computed by schedule_message
SendAt(t, user_id, prod_seconds, test_seconds) ==
    t + (IF is_fast_user(user_id) THEN test_seconds ELSE prod_seconds)

\* schedule_message: delete, insert, commit, as one transaction
schedule_message(st, id, t, user_id, prod_seconds, kind, payload, test_seconds) ==
    DeleteUndelivered(st, user_id, kind)
        \cup {Row(id, user_id, SendAt(t, user_id, prod_seconds, test_seconds),
                  kind, payload)}

\* the statements of schedule_message that touch the database
Stages == {"connect", "delete", "insert", "commit"}

\* the table as schedule_message's own connection sees it when the
\* statement of the given stage raises
Uncommitted(st, id, t, user_id, prod_seconds, kind, payload, test_seconds, stage) ==
    IF stage \in {"connect", "delete"}
    THEN st
    ELSE IF stage = "insert"
         THEN DeleteUndelivered(st, user_id, kind)
         ELSE schedule_message(st, id, t, user_id, prod_seconds, kind,
                               payload, test_seconds)

\* mutant: the connection is in autocommit mode, every statement is durable
Rollback_Autocommit(committed, uncommitted) ==
    uncommitted

\* the exception leaves schedule_message before conn.commit(): the open
\* transaction is never committed and is rolled back with the connection
Rollback(committed, uncommitted) ==
    committed

\* schedule_message when the statement of the given stage raises: the table
\* every other connection sees
schedule_message_raises(st, id, t, user_id, prod_seconds, kind, payload, test_seconds, stage) ==
    Rollback(st, Uncommitted(st, id, t, user_id, prod_seconds, kind, payload,
                             test_seconds, stage))

\* mutant: the update flips the flag instead of setting it
mark_message_delivered_Toggle(st, task_id) ==
    {IF r.id = task_id THEN [r EXCEPT !.delivered = 1 - r.delivered] ELSE r :
        r \in st}

\* mutant: the update is never committed
mark_message_delivered_NoUpdate(st, task_id) ==
    st

\* mark_message_delivered: UPDATE ... SET delivered=1 WHERE id=?
mark_message_delivered(st, task_id) ==
    {IF r.id = task_id THEN [r EXCEPT !.delivered = 1] ELSE r : r \in st}

\* the finally block of process_scheduled_message after schedule_message
\* raised: once the DELETE ran, the failed connection, kept alive by the
\* traceback, holds the write lock and the UPDATE times out; before that the
\* UPDATE may go through or fail for the same cause
MarkAfterRaise(st, task_id, stage) ==
    IF stage \in {"insert", "commit"}
    THEN {st}
    ELSE {st, mark_message_delivered(st, task_id)}

\* mutant: the purge keeps the delivered rows
purge_user_UndeliveredOnly(st, user_id) ==
    {r \in st : r.user_id # user_id \/ r.delivered = 1}

\* purge_user: DELETE FROM scheduled_messages WHERE user_id=?
purge_user(st, user_id) ==
    {r \in st : r.user_id # user_id}

\* mutant: the delivered=0 condition is missing
DueRows_IgnoreDelivered(st, t) ==
    {r \in st : r.send_at <= t}

\* mutant: send_at < ? instead of send_at <= ?
DueRows_Strict(st, t) ==
    {r \in st : r.delivered = 0 /\ r.send_at < t}

\* WHERE delivered=0 AND send_at <= ?
DueRows(st, t) ==
    {r \in st : r.delivered = 0 /\ r.send_at <= t}

\* mutant: the ORDER BY clause is missing
RECURSIVE OrderBySendAt_Unordered(_)
OrderBySendAt_Unordered(S) ==
    IF S = {}
    THEN {<<>>}
    ELSE UNION {{<<r>> \o t : t \in OrderBySendAt_Unordered(S \ {r})} :
                r \in S}

\* ORDER BY send_at ASC: every order of S that is ascending in send_at
\* (SQL leaves the order of rows with equal send_at open)
RECURSIVE OrderBySendAt(_)
OrderBySendAt(S) ==
    IF S = {}
    THEN {<<>>}
    ELSE UNION {{<<r>> \o t : t \in OrderBySendAt(S \ {r})} :
                r \in {x \in S : \A y \in S : x.send_at <= y.send_at}}

\* LIMIT
Limit(s, n) == SubSeq(s, 1, IF Len(s) < n THEN Len(s) ELSE n)

\* the SELECT of scheduler_worker: the batches a poll at time t can fetch
FetchRows(st, t) ==
    {Limit(s, BatchLimit) : s \in OrderBySendAt(DueRows(st, t))}

(***************************************************************************)
(* Funnel handlers reached through process_scheduled_message.              *)
(***************************************************************************)
RegisteredKinds ==
    {"channel_invite", "avoidance_intro", "case_story", "final_block1",
     "final_block2", "final_block3", "chat_invite"}

\* kinds whose handler schedules a follow-up step as its last statement
ChainKinds ==
    {"avoidance_intro", "case_story", "final_block1", "final_block2",
     "final_block3"}

\* mutant: send_final_message schedules final_block3
NextKind_SkipBlock2(kind) ==
    CASE kind = "avoidance_intro" -> "case_story"
      [] kind = "case_story" -> "final_block1"
      [] kind = "final_block1" -> "final_block3"
      [] kind = "final_block2" -> "final_block3"
      [] kind = "final_block3" -> "chat_invite"

\* the kind a handler schedules
NextKind(kind) ==
    CASE kind = "avoidance_intro" -> "case_story"
      [] kind = "case_story" -> "final_block1"
      [] kind = "final_block1" -> "final_block2"
      [] kind = "final_block2" -> "final_block3"
      [] kind = "final_block3" -> "chat_invite"

\* prod_seconds of the follow-up a handler schedules
NextProdSeconds(kind) ==
    IF kind = "final_block3" THEN WEEK ELSE DAY

\* kinds whose handler awaits a Telegram call outside any try/except, so
\* that a failed send leaves the handler as an exception
RaisingKinds ==
    {"avoidance_intro", "case_story", "final_block2", "final_block3",
     "chat_invite"}

\* the follow-up schedule_message at the end of a handler; m is the id of
\* the message the handler has just sent
HandlerSchedule(st, id, t, row, m) ==
    IF row.kind \in ChainKinds
    THEN schedule_message(st, id, t, row.user_id, NextProdSeconds(row.kind),
                          NextKind(row.kind),
                          IF row.kind = "avoidance_intro" THEN Str(m)
                                                          ELSE NoPayload,
                          TEST_SECONDS)
    ELSE st

\* rows the follow-up schedule of a handler supersedes
HandlerSupersedes(st, row) ==
    IF row.kind \in ChainKinds
    THEN UndeliveredOf(st, row.user_id, NextKind(row.kind))
    ELSE {}

\* mutant: no except clause, the exception ends scheduler_worker
OnException_Stop == "stopped"

\* where scheduler_worker goes when its try block raises: the except
\* clause logs, then the loop sleeps and polls again
OnException == "sleep"

\* history record of a superseded row: whether a poll had fetched it, whether
\* its handler had been invoked, whether its handler was suspended
SupRec(rows) ==
    {[row |-> r, fetched |-> r.id \in fetched, invoked |-> r.id \in invoked,
      running |-> pc = "handler" /\ batch[idx].id = r.id] : r \in rows}

(***************************************************************************)
(* Initial state: a fresh database, the worker about to poll.              *)
(***************************************************************************)
InitState ==
    /\ now = 0
    /\ store = {}
    /\ nextId = 1
    /\ pc = "poll"
    /\ batch = <<>>
    /\ idx = 0
    /\ calls = 0
    /\ starts = 0
    /\ lastStart = <<>>
    /\ issued = {}
    /\ checks = {}
    /\ restarts = 0
    /\ lastCall = <<>>
    /\ events = <<>>
    /\ ticks = 0
    /\ fetched = {}
    /\ invoked = {}
    /\ invokedTwice = {}
    /\ raised = {}
    /\ returned = {}
    /\ superseded = {}
    /\ purged = {}
    /\ leftOut = {}
    /\ storeErrs = <<>>

Init ==
    /\ MODE \in Modes
    /\ FAST_USER_ID_RAW \in FastRaws
    /\ InitState

(***************************************************************************)
(* The clock.  Rows only compare send_at with now, so the clock is moved    *)
(* from one due time of a stored row to a later one.                       *)
(***************************************************************************)
TickUpTo(n) ==
    /\ ticks < n
    /\ ticks' = ticks + 1
    /\ \E t \in {r.send_at : r \in store} :
          /\ t > now
          /\ now' = t
    /\ UNCHANGED <<config, pdf, envHist, events, store, nextId, worker, calls, dispatchHist,
                   superseded, purged, storeErrs>>

Tick == TickUpTo(MaxTicks)

\* the clock along whole funnel chains
ChainTick == TickUpTo(MaxChainTicks)

(***************************************************************************)
(* User interactions (handlers run by the bot framework).                  *)
(***************************************************************************)
\* send_material: the two schedule_message calls before the last await
SendMaterial(u) ==
    /\ calls < MaxCalls
    /\ calls' = calls + 1
    /\ store' = schedule_message(
                    schedule_message(store, nextId, now, u, MINUTES_20,
                                     "channel_invite", NoPayload, TEST_SECONDS),
                    nextId + 1, now, u, DAY, "avoidance_intro", NoPayload,
                    TEST_SECONDS)
    /\ nextId' = nextId + 2
    /\ superseded' = superseded
            \cup SupRec(UndeliveredOf(store, u, "channel_invite"))
            \cup SupRec(UndeliveredOf(store, u, "avoidance_intro"))
    /\ UNCHANGED <<config, pdf, envHist, events, now, ticks, worker, dispatchHist, purged, storeErrs>>

\* the arguments of a schedule_message call that raises at the given stage
FailedCall(id, u, prod_seconds, kind, payload, stage) ==
    <<[id |-> id, at |-> now, user_id |-> u, prod_seconds |-> prod_seconds,
       kind |-> kind, payload |-> payload, test_seconds |-> TEST_SECONDS,
       stage |-> stage]>>

\* send_material when its first (first = TRUE) or its second
\* schedule_message raises: the exception leaves the handler, the statements
\* after the failed call are not executed
SendMaterialFail(u, first, stage) ==
    /\ calls < MaxCalls
    /\ Len(storeErrs) < MaxFails
    /\ calls' = calls + 1
    /\ IF first
       THEN /\ store' = schedule_message_raises(store, nextId, now, u,
                            MINUTES_20, "channel_invite", NoPayload,
                            TEST_SECONDS, stage)
            /\ nextId' = nextId
            /\ superseded' = superseded
            /\ lastCall' = FailedCall(nextId, u, MINUTES_20,
                                      "channel_invite", NoPayload, stage)
       ELSE /\ store' = schedule_message_raises(
                            schedule_message(store, nextId, now, u, MINUTES_20,
                                             "channel_invite", NoPayload,
                                             TEST_SECONDS),
                            nextId + 1, now, u, DAY, "avoidance_intro",
                            NoPayload, TEST_SECONDS, stage)
            /\ nextId' = nextId + 1
            /\ superseded' = superseded
                    \cup SupRec(UndeliveredOf(store, u, "channel_invite"))
            /\ lastCall' = FailedCall(nextId + 1, u, DAY,
                                      "avoidance_intro", NoPayload, stage)
    /\ storeErrs' = Append(storeErrs, "schedule")
    /\ UNCHANGED <<config, pdf, starts, lastStart, restarts, events, now, ticks, worker,
                   dispatchHist, purged>>

\* a user handler whose only store access is one schedule_message of
\* case_story with the id of a message as payload
ScheduleCaseStoryCall(u, prod_seconds, m) ==
    /\ calls' = calls + 1
    /\ store' = schedule_message(store, nextId, now, u, prod_seconds,
                                 "case_story", Str(m), TEST_SECONDS)
    /\ nextId' = nextId + 1
    /\ superseded' = superseded
            \cup SupRec(UndeliveredOf(store, u, "case_story"))
    /\ UNCHANGED <<config, pdf, envHist, events, now, ticks, worker, dispatchHist, purged, storeErrs>>

ScheduleCaseStory(u, prod_seconds, m) ==
    /\ calls < MaxCalls
    /\ ScheduleCaseStoryCall(u, prod_seconds, m)

\* finish_test, when the result message carries the call-to-action keyboard
FinishTest(u, m) == ScheduleCaseStory(u, DAY, m)

\* handle_avoidance_ok
HandleAvoidanceOk(u, m) == ScheduleCaseStory(u, HOUR, m)

\* handle_avoidance_scared
HandleAvoidanceScared(u, m) == ScheduleCaseStory(u, HOUR, m)

\* mutant: /start purges whoever sends it
CmdStart_PurgeAny(u) ==
    /\ starts < MaxStarts
    /\ starts' = starts + 1
    /\ lastStart' = <<u>>
    /\ store' = purge_user(store, u)
    /\ purged' = purged \cup {r \in store : r.user_id = u}
    /\ UNCHANGED <<config, pdf, restarts, lastCall, events, now, ticks, nextId, worker,
                   calls, dispatchHist, superseded, storeErrs>>

\* cmd_start: purge_user for the test user only; an environment value int()
\* rejects raises ValueError before the comparison
CmdStart(u) ==
    /\ starts < MaxStarts
    /\ starts' = starts + 1
    /\ lastStart' = <<u>>
    /\ IF (FAST_USER_ID_RAW = "" \/ IntParses(FAST_USER_ID_RAW))
            /\ u = TEST_USER_ID
       THEN /\ store' = purge_user(store, u)
            /\ purged' = purged \cup {r \in store : r.user_id = u}
       ELSE UNCHANGED <<store, purged>>
    /\ UNCHANGED <<config, pdf, restarts, lastCall, events, now, ticks, nextId, worker,
                   calls, dispatchHist, superseded, storeErrs>>

\* a direct call of schedule_message with arguments of the caller's choice
ScheduleCall(u, prod_seconds, kind, payload, test_seconds) ==
    /\ calls < MaxCalls
    /\ calls' = calls + 1
    /\ store' = schedule_message(store, nextId, now, u, prod_seconds, kind,
                                 payload, test_seconds)
    /\ nextId' = nextId + 1
    /\ superseded' = superseded \cup SupRec(UndeliveredOf(store, u, kind))
    /\ lastCall' = <<[id |-> nextId, at |-> now, user_id |-> u,
                      prod_seconds |-> prod_seconds, kind |-> kind,
                      payload |-> payload, test_seconds |-> test_seconds]>>
    /\ UNCHANGED <<config, pdf, starts, lastStart, restarts, events, now, ticks, worker, dispatchHist,
                   purged, storeErrs>>

(***************************************************************************)
(* The dispatch loop.                                                      *)
(***************************************************************************)
\* mutant: the loop does not await process_scheduled_message, the handlers
\* of all rows of the batch are started as tasks at once
Invoke_Spawn(row) ==
    /\ invoked' = invoked
            \cup (IF pc = "poll"
                  THEN {batch'[j].id : j \in 1..Len(batch')}
                  ELSE {batch[j].id : j \in 1..Len(batch)})
    /\ invokedTwice' = invokedTwice

\* process_scheduled_message is entered for row: the handler of its kind
\* runs up to its first await
Invoke(row) ==
    /\ invoked' = invoked \cup {row.id}
    /\ invokedTwice' = invokedTwice
            \cup (IF row.id \in invoked THEN {row.id} ELSE {})

\* mutant: every kind is taken to have a handler
NextRegistered_Any(b, i) == i

\* position in b, from i on, of the first row whose kind has a branch in
\* process_scheduled_message; Len(b) + 1 when there is none
NextRegistered(b, i) ==
    IF \E j \in i..Len(b) : b[j].kind \in RegisteredKinds
    THEN CHOOSE j \in i..Len(b) :
             /\ b[j].kind \in RegisteredKinds
             /\ \A k \in i..(j - 1) : b[k].kind \notin RegisteredKinds
    ELSE Len(b) + 1

\* the else branch of process_scheduled_message for rows i..j-1 of b: it
\* awaits nothing, so the for loop passes these rows without suspending;
\* each is logged to the table events ...
RECURSIVE LogUnknown(_, _, _, _, _)
LogUnknown(ev, b, i, j, t) ==
    IF i >= j
    THEN ev
    ELSE LogUnknown(Append(ev, [user_id |-> b[i].user_id, timestamp |-> t,
                                details |-> b[i].kind]),
                    b, i + 1, j, t)

\* ... and marked delivered by the finally block
RECURSIVE MarkUnknown(_, _, _, _)
MarkUnknown(st, b, i, j) ==
    IF i >= j
    THEN st
    ELSE MarkUnknown(mark_message_delivered(st, b[i].id), b, i + 1, j)

\* one poll: the SELECT, then either the sleep of an empty poll or the for
\* loop up to the first await, which is in the first handler invoked
Poll ==
    /\ pc = "poll"
    /\ \E b \in FetchRows(store, now) :
          LET j == NextRegistered(b, 1) IN
          /\ batch' = b
          /\ fetched' = fetched \cup {b[i].id : i \in 1..Len(b)}
          /\ leftOut' = leftOut \cup ({r.id : r \in DueRows(store, now)}
                                        \ {b[i].id : i \in 1..Len(b)})
          /\ store' = MarkUnknown(store, b, 1, j)
          /\ events' = LogUnknown(events, b, 1, j, now)
          /\ IF j > Len(b)
             THEN /\ pc' = "sleep"
                  /\ idx' = Len(b)
                  /\ UNCHANGED <<invoked, invokedTwice>>
             ELSE /\ pc' = "handler"
                  /\ idx' = j
                  /\ Invoke(b[j])
    /\ UNCHANGED <<config, pdf, envHist, now, ticks, nextId, calls, raised,
                   returned, superseded, purged, storeErrs>>

\* the poll's connect or SELECT raises: caught by the except clause
PollFail ==
    /\ pc = "poll"
    /\ Len(storeErrs) < MaxFails
    /\ pc' = OnException
    /\ batch' = <<>>
    /\ idx' = 0
    /\ storeErrs' = Append(storeErrs, "poll")
    /\ UNCHANGED <<config, pdf, envHist, events, now, ticks, store, nextId, calls, dispatchHist,
                   superseded, purged>>

\* mutant: the sleep at the end of the iteration is missing
Continue_NoSleep ==
    LET j == NextRegistered(batch, idx + 1) IN
    /\ events' = LogUnknown(events, batch, idx + 1, j, now)
    /\ IF j <= Len(batch)
       THEN /\ pc' = "handler"
            /\ idx' = j
            /\ Invoke(batch[j])
       ELSE /\ pc' = "poll"
            /\ idx' = Len(batch)
            /\ UNCHANGED <<invoked, invokedTwice>>

\* the for loop after process_scheduled_message returned: next row of the
\* batch, or the sleep at the end of the iteration
Continue ==
    LET j == NextRegistered(batch, idx + 1) IN
    /\ events' = LogUnknown(events, batch, idx + 1, j, now)
    /\ IF j <= Len(batch)
       THEN /\ pc' = "handler"
            /\ idx' = j
            /\ Invoke(batch[j])
       ELSE /\ pc' = "sleep"
            /\ idx' = Len(batch)
            /\ UNCHANGED <<invoked, invokedTwice>>

\* the handler of batch[idx] resumes, sends its last message (id m),
\* schedules its follow-up and returns; finally marks the row delivered
HandlerReturn(m) ==
    /\ pc = "handler"
    /\ LET row == batch[idx] IN
          /\ store' = MarkUnknown(
                          mark_message_delivered(
                              HandlerSchedule(store, nextId, now, row, m),
                              row.id),
                          batch, idx + 1, NextRegistered(batch, idx + 1))
          /\ nextId' = IF row.kind \in ChainKinds THEN nextId + 1 ELSE nextId
          /\ superseded' = superseded \cup SupRec(HandlerSupersedes(store, row))
          /\ returned' = returned \cup {row.id}
    /\ Continue
    /\ UNCHANGED <<config, pdf, envHist, now, ticks, batch, calls, fetched,
                   leftOut, raised, purged, storeErrs>>

\* as HandlerReturn, but mark_message_delivered raises in the finally block
HandlerReturnMarkFail(m) ==
    /\ pc = "handler"
    /\ Len(storeErrs) < MaxFails
    /\ LET row == batch[idx] IN
          /\ store' = HandlerSchedule(store, nextId, now, row, m)
          /\ nextId' = IF row.kind \in ChainKinds THEN nextId + 1 ELSE nextId
          /\ superseded' = superseded \cup SupRec(HandlerSupersedes(store, row))
          /\ returned' = returned \cup {row.id}
    /\ pc' = OnException
    /\ storeErrs' = Append(storeErrs, "mark")
    /\ UNCHANGED <<config, pdf, envHist, events, now, ticks, batch, idx, calls, fetched, invoked,
                   invokedTwice, raised, purged, leftOut>>

\* the handler of batch[idx] raises at an await; finally marks the row
\* delivered and the exception leaves the for loop
HandlerRaise ==
    /\ pc = "handler"
    /\ batch[idx].kind \in RaisingKinds
    /\ store' = mark_message_delivered(store, batch[idx].id)
    /\ raised' = raised \cup {batch[idx].id}
    /\ pc' = OnException
    /\ UNCHANGED <<config, pdf, envHist, events, now, ticks, nextId, batch, idx, calls, fetched, invoked,
                   invokedTwice, returned, superseded, purged, leftOut,
                   storeErrs>>

\* as HandlerRaise, but mark_message_delivered raises as well
HandlerRaiseMarkFail ==
    /\ pc = "handler"
    /\ Len(storeErrs) < MaxFails
    /\ batch[idx].kind \in RaisingKinds
    /\ raised' = raised \cup {batch[idx].id}
    /\ pc' = OnException
    /\ storeErrs' = Append(storeErrs, "mark")
    /\ UNCHANGED <<config, pdf, envHist, events, now, ticks, store, nextId, batch, idx, calls, fetched,
                   invoked, invokedTwice, returned, superseded, purged,
                   leftOut>>

\* the handler has sent its messages and its follow-up schedule_message
\* raises: the exception leaves the handler and process_scheduled_message,
\* whose finally block runs, and is caught by scheduler_worker
HandlerScheduleFail(m, stage) ==
    /\ pc = "handler"
    /\ Len(storeErrs) < MaxFails
    /\ batch[idx].kind \in ChainKinds
    /\ LET row == batch[idx]
           payload == IF row.kind = "avoidance_intro" THEN Str(m)
                                                      ELSE NoPayload
       IN  /\ store' \in MarkAfterRaise(
                             schedule_message_raises(store, nextId, now,
                                 row.user_id, NextProdSeconds(row.kind),
                                 NextKind(row.kind), payload, TEST_SECONDS,
                                 stage),
                             row.id, stage)
           /\ lastCall' = FailedCall(nextId, row.user_id,
                                     NextProdSeconds(row.kind),
                                     NextKind(row.kind), payload, stage)
           /\ raised' = raised \cup {row.id}
    /\ pc' = OnException
    /\ storeErrs' = Append(storeErrs, "schedule")
    /\ UNCHANGED <<config, pdf, starts, lastStart, restarts, events, now, ticks, nextId,
                   batch, idx, calls, fetched, invoked, invokedTwice,
                   returned, superseded, purged, leftOut>>

\* asyncio.sleep(SCHEDULER_POLL_INTERVAL) is over
Wake ==
    /\ pc = "sleep"
    /\ pc' = "poll"
    /\ UNCHANGED <<config, pdf, envHist, events, now, ticks, store, nextId, batch, idx, calls,
                   dispatchHist, superseded, purged, storeErrs>>

\* mutant: the schedule is kept in memory and lost with the process
Restart_InMemory ==
    /\ restarts < MaxRestarts
    /\ restarts' = restarts + 1
    /\ pc' = "poll"
    /\ batch' = <<>>
    /\ idx' = 0
    /\ store' = {}
    /\ UNCHANGED <<config, pdf, starts, lastStart, lastCall, events, now, ticks, nextId, calls,
                   dispatchHist, superseded, purged, storeErrs>>

\* the process is stopped (at an await of the dispatch loop) and started
\* again: main creates one scheduler_worker, which begins with a poll; the
\* database file is what init_db finds (CREATE TABLE IF NOT EXISTS)
Restart ==
    /\ restarts < MaxRestarts
    /\ restarts' = restarts + 1
    /\ pc' = "poll"
    /\ batch' = <<>>
    /\ idx' = 0
    /\ UNCHANGED <<config, pdf, starts, lastStart, lastCall, events, now, ticks, store, nextId, calls,
                   dispatchHist, superseded, purged, storeErrs>>

\* the process is stopped inside process_scheduled_message, after the
\* handler committed its follow-up schedule_message and before the finally
\* block committed mark_message_delivered, and started again
RestartAfterSchedule(m) ==
    /\ restarts < MaxRestarts
    /\ restarts' = restarts + 1
    /\ pc = "handler"
    /\ batch[idx].kind \in ChainKinds
    /\ store' = HandlerSchedule(store, nextId, now, batch[idx], m)
    /\ nextId' = nextId + 1
    /\ superseded' = superseded
            \cup SupRec(HandlerSupersedes(store, batch[idx]))
    /\ pc' = "poll"
    /\ batch' = <<>>
    /\ idx' = 0
    /\ UNCHANGED <<config, pdf, starts, lastStart, lastCall, events, now, ticks, calls, dispatchHist,
                   purged, storeErrs>>

UserStep ==
    \E u \in Users :
        \/ SendMaterial(u)
        \/ CmdStart(u)
        \/ \E m \in MsgIds : \/ FinishTest(u, m)
                              \/ HandleAvoidanceOk(u, m)
                              \/ HandleAvoidanceScared(u, m)

\* the program while the store works
Next ==
    \/ Tick
    \/ UserStep
    \/ Poll
    \/ \E m \in MsgIds : HandlerReturn(m)
    \/ HandlerRaise
    \/ Wake

Spec == Init /\ [][Next]_vars

\* the program with a store that can fail under the dispatch loop; the
\* users only press get_material
NextFail ==
    \/ Tick
    \/ \E u \in Users : SendMaterial(u)
    \/ Poll
    \/ PollFail
    \/ \E m \in MsgIds : HandlerReturn(m)
    \/ \E m \in MsgIds : HandlerReturnMarkFail(m)
    \/ HandlerRaise
    \/ HandlerRaiseMarkFail
    \/ Wake

FailInit == Init /\ MODE = "test" /\ FAST_USER_ID_RAW = ""

FailSpec == FailInit /\ [][NextFail]_vars

\* a handler that was invoked comes to an end
HandlerEnd == (\E m \in MsgIds : HandlerReturn(m)) \/ HandlerRaise

\* the event loop resumes the dispatch loop whenever it can run: the sleep
\* ends, the SELECT is executed, an invoked handler returns or raises
Fairness == WF_vars(Wake) /\ WF_vars(Poll) /\ WF_vars(HandlerEnd)

LiveInit == Init /\ MODE = "prod" /\ FAST_USER_ID_RAW = "1"

LiveSpec == LiveInit /\ [][Next]_vars /\ Fairness

\* the program with one stop and restart of the process
NextRestart ==
    \/ Tick
    \/ \E u \in Users : SendMaterial(u)
    \/ Poll
    \/ \E m \in MsgIds : HandlerReturn(m)
    \/ HandlerRaise
    \/ Wake
    \/ Restart
    \/ \E m \in MsgIds : RestartAfterSchedule(m)

RestartSpec == LiveInit /\ [][NextRestart]_vars /\ Fairness

\* get_material pressed by a user who has not pressed it before, before
\* the clock has moved
PressOnce(u) ==
    /\ ticks = 0
    /\ \A r \in store : r.user_id # u
    /\ SendMaterial(u)

\* the funnel chain left to itself: every user presses get_material at most
\* once, every handler succeeds, and Telegram numbers every message 101
ChainNext ==
    \/ ChainTick
    \/ \E u \in Users : PressOnce(u)
    \/ Poll
    \/ HandlerReturn(101)
    \/ Wake

ChainInit == Init /\ MODE = "test" /\ FAST_USER_ID_RAW = ""

\* the loop runs whenever it can, every handler returns, time passes
ChainFairness ==
    /\ WF_vars(Wake)
    /\ WF_vars(Poll)
    /\ WF_vars(HandlerReturn(101))
    /\ WF_vars(ChainTick)

ChainSpec == ChainInit /\ [][ChainNext]_vars /\ ChainFairness

\* one pass of user 1 through the funnel: get_material once, then the quiz
\* (its start button comes with the avoidance_intro message) finished once,
\* then one call-to-action button of the result message pressed once;
\* Telegram numbers every message the loop sends 101
PassPress ==
    /\ calls = 0
    /\ SendMaterial(1)

PassFinishTest(m) ==
    /\ calls = 1
    /\ \E r \in store :
          r.user_id = 1 /\ r.kind = "avoidance_intro" /\ r.id \in returned
    /\ ScheduleCaseStoryCall(1, DAY, m)

PassCta(m) ==
    /\ calls = 2
    /\ ScheduleCaseStoryCall(1, HOUR, m)

PassNext ==
    \/ ChainTick
    \/ PassPress
    \/ \E m \in MsgIds : PassFinishTest(m)
    \/ \E m \in MsgIds : PassCta(m)
    \/ Poll
    \/ HandlerReturn(101)
    \/ Wake

PassSpec == ChainInit /\ [][PassNext]_vars

\* the program with a poll whose query fails, handlers that return, and
\* the event loop resuming the dispatch loop whenever it can run
PollErrNext ==
    \/ Tick
    \/ \E u \in Users : SendMaterial(u)
    \/ Poll
    \/ PollFail
    \/ HandlerReturn(101)
    \/ Wake

PollErrSpec ==
    /\ FailInit
    /\ [][PollErrNext]_vars
    /\ WF_vars(Wake) /\ WF_vars(Poll) /\ WF_vars(HandlerReturn(101))

\* the program with schedule_message calls that raise
SchedFailNext ==
    \/ Tick
    \/ \E u \in Users : SendMaterial(u)
    \/ \E u \in Users, first \in BOOLEAN, stage \in Stages :
           SendMaterialFail(u, first, stage)
    \/ Poll
    \/ HandlerReturn(101)
    \/ \E stage \in Stages : HandlerScheduleFail(101, stage)
    \/ Wake

SchedFailSpec == FailInit /\ [][SchedFailNext]_vars

\* the program under every kind of FAST_USER_ID value, with /start
StartRaws == {"", "0", "1", " 1", "x"}

StartInit ==
    /\ MODE \in Modes
    /\ FAST_USER_ID_RAW \in StartRaws
    /\ InitState

StartNext ==
    \/ Tick
    \/ \E u \in Users : SendMaterial(u)
    \/ \E u \in Users : CmdStart(u)
    \/ Poll
    \/ HandlerReturn(101)
    \/ Wake

StartSpec == StartInit /\ [][StartNext]_vars

\* rows of any kind and payload in the table, as callers of
\* schedule_message can create them: a kind with a handler that chains, one
\* with a handler that ends the chain, and one no branch of
\* process_scheduled_message names
KindKinds == {"case_story", "chat_invite", "legacy_step"}

KindPayloads == {NoPayload, "101", "102"}

KindNext ==
    \/ Tick
    \/ \E u \in Users, f \in Delays, k \in KindKinds, pl \in KindPayloads :
           ScheduleCall(u, HOUR, k, pl, f)
    \/ Poll
    \/ HandlerReturn(101)
    \/ HandlerRaise
    \/ Wake

KindSpec == ChainInit /\ [][KindNext]_vars

\* schedule_message under every environment of the time policy
PolicyInit ==
    /\ MODE \in PolicyModes
    /\ FAST_USER_ID_RAW \in PolicyRaws
    /\ InitState

PolicyNext ==
    \/ Tick
    \/ \E u \in Users, p \in Delays, f \in Delays, k \in PolicyKinds,
           pl \in {NoPayload, "101"} : ScheduleCall(u, p, k, pl, f)

PolicySpec == PolicyInit /\ [][PolicyNext]_vars

(***************************************************************************)
(* secure_pdf_server.py: download tokens.                                  *)
(***************************************************************************)
\* str(n) of a natural number, as the sequence of its decimal digits
RECURSIVE Decimal(_)
Decimal(n) == IF n < 10 THEN <<n>> ELSE Append(Decimal(n \div 10), n % 10)

\* int(s) of a sequence of decimal digits
RECURSIVE ParseDecimal(_)
ParseDecimal(s) ==
    IF Len(s) = 1
    THEN s[1]
    ELSE 10 * ParseDecimal(SubSeq(s, 1, Len(s) - 1)) + s[Len(s)]

\* f"{user_id}:{expires}:{SECRET}", as the sequence of its pieces
RawOf(user_id, expires) ==
    <<Decimal(user_id), ":", Decimal(expires), ":", SECRET>>

\* hashlib.sha256(raw.encode()).hexdigest(): a digest of hex digits that
\* stands for its input and for no other (collisions are left out)
Sha256Hex(raw) == <<"sha256", raw>>

\* generate_token at time t; the token "hash:expires" is kept as the two
\* parts split(":") finds in it (a hex digest and decimal digits hold no ":")
generate_token(user_id, t) ==
    LET expires == t + TOKEN_TTL IN
    <<Sha256Hex(RawOf(user_id, expires)), Decimal(expires)>>

\* verify_token at time t
verify_token(token, t) ==
    LET hash_part == token[1]
        expires == ParseDecimal(token[2])
    IN  IF expires < t
        THEN FALSE
        ELSE Sha256Hex(RawOf(1, expires)) = hash_part

\* everything of the bot, which the token server does not touch
botState ==
    <<config, envHist, events, ticks, store, nextId, worker, calls,
      dispatchHist, superseded, purged, storeErrs>>

\* time passes on the token server
Elapse(d) ==
    /\ now + d <= MaxTokenTime
    /\ now' = now + d
    /\ UNCHANGED <<botState, pdf>>

\* a token is generated for user u
GenerateToken(u) ==
    /\ Cardinality(issued) < MaxTokens
    /\ issued' = issued \cup {[user_id |-> u, token |-> generate_token(u, now)]}
    /\ UNCHANGED <<botState, now, checks>>

\* GET /secure-pdf with a token that was handed out
VerifyToken ==
    /\ Cardinality(checks) < MaxChecks
    /\ \E i \in issued :
          checks' = checks \cup {[user_id |-> i.user_id, token |-> i.token,
                                   at |-> now,
                                   ok |-> verify_token(i.token, now)]}
    /\ UNCHANGED <<botState, now, issued>>

TokenNext ==
    \/ \E d \in {300, 301} : Elapse(d)
    \/ \E u \in Users : GenerateToken(u)
    \/ VerifyToken

TokenSpec == Init /\ [][TokenNext]_vars

(***************************************************************************)
(* Properties.                                                             *)
(***************************************************************************)
Keys == Users \X RegisteredKinds

BatchIds == {batch[j].id : j \in 1..Len(batch)}

RowOf(i) == {r \in store : r.id = i}

\* C1: for every (user_id, kind) the table holds at most one row with
\* delivered=0, and the batch a poll fetched never holds two rows of the
\* same (user_id, kind).
C1_AtMostOneUndelivered ==
    /\ \A key \in Keys :
          Cardinality(UndeliveredOf(store, key[1], key[2])) <= 1
    /\ \A j, k \in 1..Len(batch) :
          (batch[j].user_id = batch[k].user_id /\ batch[j].kind = batch[k].kind)
              => j = k

\* C1 witness: a (user, kind) that has been rescheduled over an undelivered
\* row and over a delivered one, while the dispatch loop is inside a batch.
C1_Witness ==
    /\ superseded # {}
    /\ pc = "handler"
    /\ \E r1, r2 \in store :
          /\ r1.user_id = r2.user_id /\ r1.kind = r2.kind
          /\ r1.delivered = 1 /\ r2.delivered = 0

\* C2: a row that is due and undelivered is eventually gone from the set of
\* due undelivered rows, by being delivered or deleted (leads-to, for every
\* id), and a delivered row has had its handler invoked exactly once; this
\* includes rows a poll left out because of its LIMIT.
\* ids in use: a user interaction inserts at most two rows, and between two
\* advances of the clock each funnel chain inserts at most one follow-up
IdBound == 2 * MaxCalls + MaxCalls * MaxTicks

DueUndelivered(i) ==
    \E r \in store : r.id = i /\ r.delivered = 0 /\ r.send_at <= now

Dispatched(i) ==
    \A r \in store : r.id = i => (r.delivered = 1 /\ i \in invoked \ invokedTwice)

C2_EventuallyDispatched ==
    /\ \A i \in 1..IdBound : DueUndelivered(i) ~> Dispatched(i)
    /\ [](\A r \in store : r.delivered = 1 => r.id \in invoked \ invokedTwice)
    /\ [](nextId <= IdBound + 1)

\* C2 witness: a row that a poll left out because of the LIMIT has been
\* dispatched by a later poll.
C2_Witness ==
    \E r \in store :
        r.id \in leftOut /\ r.delivered = 1 /\ r.id \in invoked \ invokedTwice

C4_BatchContinues ==
    (pc = "sleep" /\ idx > 0 /\ batch[idx].id \in raised) => idx = Len(batch)

\* C5: whatever fails (a handler, the poll query, mark_message_delivered)
\* the dispatch loop is polling, inside a handler or sleeping: never stopped.
C5_LoopNeverStops ==
    /\ pc \in {"poll", "handler", "sleep"}
    /\ pc = "sleep" => ENABLED Wake

\* C5 witness: after a handler raised and a store operation failed, the
\* loop is at its next poll.
C5_Witness ==
    raised # {} /\ storeErrs # <<>> /\ pc = "poll"

\* C6: every row of the batch a poll fetches is, at the instant of the
\* fetch, a row of the table with delivered=0 and send_at <= now.
C6_FetchedAreDue ==
    [][(pc = "poll" /\ pc' # "poll") =>
          \A j \in 1..Len(batch') :
              /\ batch'[j] \in store
              /\ batch'[j].delivered = 0
              /\ batch'[j].send_at <= now]_vars

\* C6 witness: a poll fetched a batch while the table also held a delivered
\* row and a row that is not yet due.
C6_Witness ==
    /\ pc = "handler"
    /\ idx = 1
    /\ batch[1] \in store
    /\ \E r \in store : r.delivered = 1
    /\ \E r \in store : r.delivered = 0 /\ r.send_at > now

\* C7: a fetched batch holds at most LIMIT rows, ascending in send_at, none
\* later than a due undelivered row left out, and it leaves rows out only
\* when it is full; the handlers of a batch are invoked in batch order.
C7_EarliestFirst ==
    [][/\ (pc = "poll" /\ pc' # "poll") =>
            LET due == {r \in store : r.delivered = 0 /\ r.send_at <= now}
                in_ == {batch'[j] : j \in 1..Len(batch')}
            IN  /\ Len(batch') <= BatchLimit
                /\ in_ \subseteq due
                /\ Cardinality(in_) = Len(batch')
                /\ \A j, k \in 1..Len(batch') :
                      j < k => batch'[j].send_at <= batch'[k].send_at
                /\ \A r \in due \ in_ : \A x \in in_ : x.send_at <= r.send_at
                /\ due # in_ => Len(batch') = BatchLimit
       /\ (pc = "handler" /\ pc' = "handler" /\ idx' # idx) =>
            /\ batch' = batch
            /\ idx' = idx + 1
            /\ batch[idx + 1].id \in invoked'
            /\ batch[idx].send_at <= batch[idx + 1].send_at]_vars

\* C7 witness: the second row of a full batch, later in send_at than the
\* first, is being handled while a due row was left out of the batch.
C7_Witness ==
    /\ pc = "handler"
    /\ idx = 2
    /\ Len(batch) = BatchLimit
    /\ batch[1].send_at < batch[2].send_at
    /\ \E r \in store :
          r.id \in leftOut /\ r.id \notin fetched /\ r.send_at > batch[2].send_at

\* C8: a row that schedule_message inserts is, after the call, the only
\* undelivered row of its (user_id, kind): the send_at and the payload of
\* the later call replace those of the earlier one.
C8_LastWriteWins ==
    [][\A r \in store' :
          r.id >= nextId => UndeliveredOf(store', r.user_id, r.kind) = {r}]_vars

\* C8 witness: an undelivered row whose predecessor of the same (user, kind)
\* was superseded before any poll fetched it, with another send_at and
\* another payload.
C8_Witness ==
    \E r \in store : \E s \in superseded :
        /\ r.delivered = 0
        /\ ~s.fetched
        /\ r.user_id = s.row.user_id /\ r.kind = s.row.kind
        /\ r.send_at # s.row.send_at
        /\ r.payload # s.row.payload

\* C9: a row superseded before any poll fetched it is not in the table and
\* its handler is never invoked.
C9_SupersededNeverInvoked ==
    \A s \in superseded :
        ~s.fetched => (s.row.id \notin invoked /\ RowOf(s.row.id) = {})

\* C9 witness: a row was superseded unfetched, its due time has passed and
\* the row that replaced it has been dispatched.
C9_Witness ==
    \E s \in superseded : \E r \in store :
        /\ ~s.fetched
        /\ s.row.send_at <= now
        /\ r.user_id = s.row.user_id /\ r.kind = s.row.kind
        /\ r.id > s.row.id
        /\ r.id \in invoked

\* C10 as stated: a step that removes the undelivered row of a (user, kind)
\* from the table (cancel) inserts no new row, so that the table then holds
\* no undelivered row of that (user, kind).
C10_CancelLeavesNone ==
    [][\A key \in Keys :
          (\E r \in UndeliveredOf(store, key[1], key[2]) :
               \A x \in store' : x.id # r.id)
              => UndeliveredOf(store', key[1], key[2]) = {}]_vars

\* C11: a purge_user(u) leaves no row of u in the table, delivered or not,
\* and leaves the rows of every other user as they were; a purged row never
\* comes back, and no later poll fetches one.
C11_PurgeRemovesAll ==
    [][/\ \A u \in Users :
            (\E r \in purged' \ purged : r.user_id = u) =>
                /\ store' = {r \in store : r.user_id # u}
                /\ purged' \ purged = {r \in store : r.user_id = u}
       /\ (starts' # starts /\ store' # store) =>
            \E u \in Users :
                /\ \A r \in store' : r.user_id # u
                /\ {r \in store : r.user_id # u} = store'
       /\ \A r \in purged' : \A x \in store' : x.id # r.id
       /\ (pc = "poll" /\ pc' # "poll") =>
            \A j \in 1..Len(batch') :
                batch'[j].id \notin {r.id : r \in purged'}]_vars

\* C11 witness: a purge removed a delivered and an undelivered row of one
\* user, and the loop is dispatching a row of another user that is still in
\* the table.
C11_Witness ==
    /\ \E r1, r2 \in purged : r1.delivered = 1 /\ r2.delivered = 0
    /\ pc = "handler"
    /\ batch[idx] \in store
    /\ batch[idx].user_id \notin {r.user_id : r \in purged}

\* C12: marking an id delivered a second time leaves the table as the first
\* call left it, and marking an id that has no row leaves the table as it is.
C12_MarkIdempotent ==
    \A i \in 1..nextId :
        LET once == mark_message_delivered(store, i) IN
            /\ mark_message_delivered(once, i) = once
            /\ RowOf(i) = {} => once = store

\* C12 witness: the loop marked an id whose row had been deleted during the
\* handler, while the table holds a delivered and an undelivered row.
C12_Witness ==
    /\ \E i \in returned \cup raised : RowOf(i) = {}
    /\ \E r \in store : r.delivered = 1
    /\ \E r \in store : r.delivered = 0

\* C13: for every user and every pair of delays the delay between the call
\* and send_at is test_seconds exactly when MODE is test or FAST_USER_ID is
\* configured as that user's id, and prod_seconds otherwise; with a mode
\* other than test and no fast id configured no user is fast.
C13_FastIffModeOrId ==
    /\ \A u \in Users, p \in Delays, f \in Delays :
          SendAt(now, u, p, f) - now =
              (IF \/ MODE = "test"
                  \/ (u = 1 /\ FAST_USER_ID_RAW = "1")
                  \/ (u = 2 /\ FAST_USER_ID_RAW = "2")
               THEN f ELSE p)
    /\ (MODE # "test" /\ FAST_USER_ID_RAW \in {"", "x"}) =>
          \A u \in Users : ~is_fast_user(u)

\* C13 witness: in a mode other than test with fast id 2, user 2 has a row
\* at the fast delay and user 1 has a row at the normal delay.
C13_Witness ==
    /\ MODE = "dev"
    /\ FAST_USER_ID_RAW = "2"
    /\ lastCall # <<>>
    /\ \E r1, r2 \in store :
          /\ r1.user_id = 1 /\ r1.send_at = 3600
          /\ r2.user_id = 2 /\ r2.send_at = 5

\* C14: the row a schedule_message call inserts has send_at = time of the
\* call + test_seconds for a fast user and + prod_seconds for any other
\* user, and not the other delay.
C14_SendAtIsCallTimePlusDelay ==
    lastCall # <<>> =>
        LET c == lastCall[1]
            chosen == IF is_fast_user(c.user_id) THEN c.test_seconds
                                                 ELSE c.prod_seconds
            other == IF is_fast_user(c.user_id) THEN c.prod_seconds
                                                ELSE c.test_seconds
        IN  \E r \in store :
                /\ r.id = c.id
                /\ r.send_at = c.at + chosen
                /\ other # chosen => r.send_at # c.at + other

\* C14 witness: a call made after the clock has moved, for the fast user in
\* production mode, with normal delay 3600 and fast delay 5.
C14_Witness ==
    /\ MODE = "prod"
    /\ FAST_USER_ID_RAW = "1"
    /\ lastCall # <<>>
    /\ lastCall[1].at > 0
    /\ lastCall[1].user_id = 1
    /\ lastCall[1].prod_seconds = 3600
    /\ lastCall[1].test_seconds = 5
    /\ \E r \in store : r.id = lastCall[1].id /\ r.send_at = now + 5

\* C15: a new row has delivered=0; a row with delivered=1 never gets
\* delivered=0 again; a row goes from 0 to 1 only in the step in which its
\* own handler returns or raises; the row of the handler in progress, if it
\* is in the table, has delivered=0.
C15_DeliveredLifecycle ==
    [][/\ \A r \in store' :
            (\A x \in store : x.id # r.id) => r.delivered = 0
       /\ \A r \in store : \A x \in store' :
            (x.id = r.id /\ r.delivered = 1) => x.delivered = 1
       /\ \A r \in store : \A x \in store' :
            (x.id = r.id /\ r.delivered = 0 /\ x.delivered = 1) =>
                /\ pc = "handler"
                /\ batch[idx].id = r.id
                /\ r.id \in returned' \cup raised'
       /\ pc' = "handler" =>
            \A x \in store' : x.id = batch'[idx'].id => x.delivered = 0]_vars

\* C15 witness: the second row of a batch is in its handler, undelivered,
\* after the first row's handler returned and the first row was marked.
C15_Witness ==
    /\ pc = "handler"
    /\ idx = 2
    /\ batch[2] \in store
    /\ batch[1].id \in returned
    /\ \E r \in store : r.id = batch[1].id /\ r.delivered = 1

\* C16 as stated: no action whose handler has been invoked has its row
\* deleted by a supersede.
C16_Original ==
    \A s \in superseded : s.row.id \notin invoked

\* C16 amended: every row ever created is in the table or was deleted by a
\* supersede or a purge; a delivered row had its handler invoked exactly
\* once, and that handler has ended; a supersede deletes only undelivered
\* rows, and when the handler of the deleted row had been invoked it was
\* suspended at that moment; a row that was never fetched does not get its
\* handler invoked after the supersede.
C16_TerminalStates ==
    /\ \A i \in 1..(nextId - 1) :
          RowOf(i) = {} =>
              i \in {s.row.id : s \in superseded} \cup {r.id : r \in purged}
    /\ \A r \in store :
          r.delivered = 1 =>
              /\ r.id \in invoked \ invokedTwice
              /\ r.id \in returned \cup raised
    /\ \A s \in superseded :
          /\ s.row.delivered = 0
          /\ RowOf(s.row.id) = {}
          /\ s.invoked => s.running
          /\ s.row.id \in invoked => s.fetched

\* C16 witness: a row was superseded while its handler was suspended, the
\* handler has since returned, and the table holds a delivered row.
C16_Witness ==
    /\ \E s \in superseded : s.running /\ s.row.id \in returned
    /\ \E r \in store : r.delivered = 1

\* C17: while the store works and the process runs, no handler is invoked
\* twice for one id; an id whose handler raised or returned is not in the
\* part of the batch still to be processed, and is never in its handler
\* again.
C17_AtMostOnce ==
    /\ invokedTwice = {}
    /\ pc = "handler" =>
          \A j \in idx..Len(batch) : batch[j].id \notin raised \cup returned

\* C17 witness: after a handler raised, the loop is at a later poll with
\* the failed row in the table, past its due time, and nothing due.
C17_Witness ==
    /\ pc = "poll"
    /\ DueRows(store, now) = {}
    /\ \E r \in store : r.id \in raised /\ r.send_at < now
    /\ returned # {}

\* ids in use when the process is restarted: a restart lets one handler run
\* a second time, which inserts one more follow-up
RestartIdBound == IdBound + MaxRestarts

\* C18: a stop and restart of the process leaves every undelivered row in
\* the table (but for a row replaced by the follow-up that the interrupted
\* handler had just committed), and after a restart every row that is due
\* and undelivered is eventually delivered (its handler invoked by the
\* restarted loop) or replaced by a supersede.
C18_RestartKeepsSchedule ==
    /\ [][restarts' # restarts =>
            \A r \in store :
                r.delivered = 0 =>
                    \/ r \in store'
                    \/ r.id \in {s.row.id : s \in superseded'}]_vars
    /\ \A i \in 1..RestartIdBound :
          (restarts > 0 /\ DueUndelivered(i)) ~>
              \/ \E r \in store : r.id = i /\ r.delivered = 1 /\ i \in invoked
              \/ i \in {s.row.id : s \in superseded}
    /\ [](nextId <= RestartIdBound + 1)

\* C18 witness: a row whose handler was in progress when the process
\* stopped has been dispatched again by the restarted loop and delivered.
C18_Witness ==
    /\ restarts > 0
    /\ \E r \in store : r.id \in invokedTwice /\ r.delivered = 1

\* handlers invoked by the loop that have neither returned nor raised
InProgress == invoked \ (returned \cup raised)

\* C19: at most one handler invoked by the loop is in progress, the one of
\* batch[idx] while the loop is inside the batch and none while it polls or
\* sleeps; the loop moves to the next row only in the step in which the
\* handler of the current row returns or raises.
C19_SerialDispatch ==
    [][/\ Cardinality(InProgress') <= 1
       /\ InProgress' = (IF pc' = "handler" THEN {batch'[idx'].id} ELSE {})
       /\ (pc = "handler" /\ (pc' # "handler" \/ idx' # idx)) =>
            batch[idx].id \in returned' \cup raised']_vars

\* C19 witness: rows of two users were fetched in one batch; the handler of
\* the second is in progress after the handler of the first returned.
C19_Witness ==
    /\ pc = "handler"
    /\ idx = 2
    /\ batch[1].user_id # batch[2].user_id
    /\ batch[1].id \in returned
    /\ InProgress = {batch[2].id}

\* C20 as stated: a fetched row that is no longer in the table and is not
\* waiting in the batch being processed has had its handler invoked.
C20_FetchedIsInvoked ==
    \A i \in fetched :
        (/\ RowOf(i) = {}
         /\ ~(pc = "handler" /\ \E j \in (idx + 1)..Len(batch) : batch[j].id = i))
            => i \in invoked

\* C21: a row with delivered=1 stays in the table, unchanged, in every step
\* of schedule_message and of the dispatch loop; it leaves the table only in
\* a /start step that purges the rows of its user.
C21_DeliveredRowsKept ==
    [][\A r \in store :
          r.delivered = 1 =>
              \/ r \in store'
              \/ /\ starts' # starts
                 /\ r \in purged'
                 /\ \A x \in store' : x.user_id # r.user_id]_vars

\* C21 witness: a delivered row is in the table next to a younger undelivered
\* row of the same (user, kind), with a supersede-delete in the history.
C21_Witness ==
    /\ superseded # {}
    /\ \E r, x \in store :
          /\ r.delivered = 1 /\ x.delivered = 0
          /\ x.user_id = r.user_id /\ x.kind = r.kind
          /\ x.id > r.id

\* C27 as stated: when the handler of a funnel step raised, the next step of
\* that user's chain has been scheduled.
C27_ChainSurvivesFailure ==
    \A r \in store :
        (r.id \in raised /\ r.kind \in ChainKinds) =>
            \E x \in store :
                x.user_id = r.user_id /\ x.kind = NextKind(r.kind) /\ x.id > r.id

\* C29 as stated: the row of every action whose handler the loop invokes is
\* in the table at the moment of the invocation.
C29_InvokedRowsExist ==
    [][\A i \in invoked' \ invoked : \E r \in store' : r.id = i]_vars

\* C30 as stated: once a row has been purged, its handler is not invoked,
\* and a handler that was running for it inserts no follow-up row when it
\* ends, so that the table holds no row of the purged user.
C30_PurgeStopsHandlers ==
    [][/\ \A i \in invoked' \ invoked : i \notin {r.id : r \in purged}
       /\ (/\ pc = "handler"
           /\ batch[idx].id \in {r.id : r \in purged}
           /\ returned' # returned) =>
            /\ nextId' = nextId
            /\ \A x \in store' : x.user_id # batch[idx].user_id]_vars

\* the funnel chain, in order
ChainOrder ==
    <<"avoidance_intro", "case_story", "final_block1", "final_block2",
      "final_block3", "chat_invite">>

RowsOf(u, kind) == {r \in store : r.user_id = u /\ r.kind = kind}

\* the chain of user u has come to its end
ChainDone(u) ==
    /\ \E r \in RowsOf(u, "chat_invite") : r.delivered = 1
    /\ \A r \in store : r.user_id = u => r.delivered = 1

\* C26: with one press of get_material per user and handlers that succeed,
\* the table holds at most one row per (user, step), no row is superseded
\* and no handler is invoked twice; the row of a step exists only when the
\* row of the step before it has been dispatched and delivered before; a
\* handler that returns inserts exactly the row of its successor, and the
\* handlers of channel_invite and chat_invite insert nothing; once
\* avoidance_intro has been dispatched the user's chain comes to its end
\* with chat_invite delivered and no undelivered row of the user, and stays
\* there (as long as the clock of the model can still advance).
C26_ChainRunsInOrder ==
    /\ [](/\ superseded = {}
          /\ invokedTwice = {}
          /\ \A u \in Users :
                /\ \A k \in RegisteredKinds : Cardinality(RowsOf(u, k)) <= 1
                /\ \A j \in 2..Len(ChainOrder) :
                      \A r \in RowsOf(u, ChainOrder[j]) :
                          \E p \in RowsOf(u, ChainOrder[j - 1]) :
                              /\ p.delivered = 1
                              /\ p.id \in returned
                              /\ p.id < r.id
                              /\ p.send_at < r.send_at)
    /\ [][returned' # returned =>
            LET row == batch[idx]
                new == {r \in store' : r.id >= nextId}
            IN  /\ returned' = returned \cup {row.id}
                /\ IF row.kind \in {"channel_invite", "chat_invite"}
                   THEN new = {}
                   ELSE \E r \in new :
                            /\ new = {r}
                            /\ r.user_id = row.user_id
                            /\ \E j \in 1..(Len(ChainOrder) - 1) :
                                  /\ row.kind = ChainOrder[j]
                                  /\ r.kind = ChainOrder[j + 1]]_vars
    /\ [][\A u \in Users : ChainDone(u) => ChainDone(u)']_vars
    /\ \A u \in Users :
          (\E r \in RowsOf(u, "avoidance_intro") : r.id \in invoked)
              ~> (ChainDone(u) \/ ticks = MaxChainTicks)

\* C26 witness: both users have gone through the whole chain, a poll left
\* rows out because of its LIMIT on the way, and the loop sleeps.
C26_Witness ==
    /\ leftOut # {}
    /\ \A u \in Users : ChainDone(u)
    /\ Cardinality(store) = 2 * (Len(ChainOrder) + 1)
    /\ pc = "sleep"

\* every row that ever was in the table
AllRows == store \cup {s.row : s \in superseded} \cup purged

\* ids of the actions of (u, kind) whose handler has been invoked
InvokedOf(u, kind) ==
    {r.id : r \in {x \in AllRows : x.user_id = u /\ x.kind = kind}} \cap invoked

\* C28 as stated: in one pass of a user through the funnel the handler of
\* each step from case_story to chat_invite is invoked for at most one
\* action of that user.
C28_NoDuplicateStep ==
    \A k \in {"case_story", "final_block1", "final_block2", "final_block3",
               "chat_invite"} :
        Cardinality(InvokedOf(1, k)) <= 1

\* rows of the batch whose kind has no handler and that the for loop has
\* passed
PassedUnknown ==
    {batch[i] : i \in {j \in 1..Len(batch) :
                          j <= idx /\ batch[j].kind \notin RegisteredKinds}}

\* rows a step inserts
Inserted == {r \in store' : r.id >= nextId}

\* C22: a due action whose kind has no handler invokes no handler and
\* schedules nothing; the dispatch logs an event that names the user and the
\* kind and marks the action delivered, so it is not fetched again.
C22_UnknownKind ==
    /\ [](/\ \A r \in AllRows : r.kind \notin RegisteredKinds
                                    => r.id \notin invoked
          /\ \A b \in PassedUnknown :
                /\ \A r \in store : r.id = b.id => r.delivered = 1
                /\ \E e \in 1..Len(events) :
                      /\ events[e].user_id = b.user_id
                      /\ events[e].details = b.kind)
    /\ [][/\ Len(events') - Len(events)
               = Cardinality({r \in store : /\ r.kind \notin RegisteredKinds
                                             /\ r.delivered = 0
                                             /\ \E q \in store' :
                                                   /\ q.id = r.id
                                                   /\ q.delivered = 1})
           /\ Len(events') > Len(events)
                => \A r \in Inserted :
                      /\ pc = "handler"
                      /\ r.user_id = batch[idx].user_id
                      /\ r.kind = NextKind(batch[idx].kind)]_vars

\* C22 happens: a handler returned and schedules its follow-up, and in the
\* same stretch the loop passed the row of unknown kind behind it
C22_Witness ==
    /\ Len(batch) = 2
    /\ batch[1].kind = "case_story"
    /\ batch[1].id \in returned
    /\ batch[2].kind = "legacy_step"
    /\ idx = 2
    /\ \E r \in store : r.id = batch[2].id /\ r.delivered = 1
    /\ \E r \in store : r.kind = "final_block1"
    /\ Len(events) = 1

\* C25: the handler of a dispatched action is invoked with the user_id, kind
\* and payload schedule_message stored for that action.
C25_HandlerArguments ==
    pc = "handler"
        => /\ \A r \in AllRows :
                 r.id = batch[idx].id
                    => /\ r.user_id = batch[idx].user_id
                       /\ r.kind = batch[idx].kind
                       /\ r.payload = batch[idx].payload
           /\ (lastCall # <<>> /\ lastCall[1].id = batch[idx].id)
                 => /\ batch[idx].user_id = lastCall[1].user_id
                    /\ batch[idx].kind = lastCall[1].kind
                    /\ batch[idx].payload = lastCall[1].payload

\* C25 happens: the second row of a batch, stored with a payload other than
\* the first row's, is in its handler
C25_Witness ==
    /\ pc = "handler"
    /\ idx = 2
    /\ lastCall # <<>>
    /\ lastCall[1].id = batch[2].id
    /\ batch[2].kind = "case_story"
    /\ batch[2].payload = "102"
    /\ batch[1].kind = "case_story"
    /\ batch[1].payload = "101"

\* the worker is in the sleep that follows a failed poll
AfterPollFail ==
    pc = "sleep" /\ batch = <<>> /\ storeErrs # <<>>
        /\ storeErrs[Len(storeErrs)] = "poll"

\* C23: a poll whose query fails invokes no handler and changes no row; the
\* loop goes on to its sleep and from there to the next poll; every action
\* due at the failed poll has its handler invoked by a later poll, unless a
\* user interaction removed its row in between.
C23_PollFailure ==
    /\ [][(pc = "poll" /\ storeErrs' # storeErrs)
             => /\ invoked' = invoked
                /\ store' = store
                /\ nextId' = nextId
                /\ events' = events
                /\ pc' = "sleep"]_vars
    /\ AfterPollFail ~> (pc = "poll")
    /\ \A i \in 1..IdBound :
          (AfterPollFail /\ DueUndelivered(i))
              ~> (i \in invoked \/ \A r \in store : r.id # i)

\* C23 happens: the poll has just failed while two rows were due; nothing
\* was invoked and both rows are still undelivered
C23_Witness ==
    /\ AfterPollFail
    /\ DueUndelivered(1)
    /\ DueUndelivered(2)
    /\ invoked = {}

\* rows of the key (user_id, kind) of a schedule_message call
RowsOfCall(st, c) == {r \in st : r.user_id = c.user_id /\ r.kind = c.kind}

\* C24: a schedule_message call in which a store operation raises leaves
\* every row of its (user_id, kind) as it was and inserts none, whatever
\* statement raised; the exception reaches the caller: a user handler
\* executes nothing after the call, a funnel handler ends as raised and the
\* loop takes its exception path.
C24_ScheduleFailure ==
    [][(storeErrs' # storeErrs /\ storeErrs'[Len(storeErrs')] = "schedule")
         => LET c == lastCall'[1] IN
            /\ RowsOfCall(store', c) = RowsOfCall(store, c)
            /\ \A r \in store' : r.id # c.id
            /\ nextId' = c.id
            /\ IF pc = "handler" /\ pc' # pc
               THEN /\ raised' = raised \cup {batch[idx].id}
                    /\ pc' = "sleep"
                    /\ invoked' = invoked
                    /\ {[r EXCEPT !.delivered = 0] : r \in store'}
                           = {[r EXCEPT !.delivered = 0] : r \in store}
               ELSE \/ store' = store
                    \/ /\ c.kind = "avoidance_intro"
                       /\ store' = schedule_message(store, nextId, now,
                                        c.user_id, MINUTES_20,
                                        "channel_invite", NoPayload,
                                        TEST_SECONDS)]_vars

\* C24 happens: the INSERT of a schedule_message call raised while an
\* undelivered row of the same user and kind was in the table; the row is
\* still there
C24_Witness ==
    /\ storeErrs = <<"schedule">>
    /\ lastCall # <<>>
    /\ lastCall[1].stage = "insert"
    /\ lastCall[1].at = now
    /\ UndeliveredOf(store, lastCall[1].user_id, lastCall[1].kind) # {}
    /\ nextId = lastCall[1].id

\* C31: the loop reaches a poll only out of its sleep, and the sleep leads
\* nowhere but to the next poll, so two fetches are separated by one sleep;
\* a poll ends in the sleep at once only if it fetched nothing or failed,
\* and a batch is left for the sleep only after its last row or by an
\* exception.
C31_OneSleepBetweenPolls ==
    [][/\ (pc # "poll" /\ pc' = "poll") => pc = "sleep"
       /\ (pc = "sleep" /\ pc' # "sleep") => pc' = "poll"
       /\ (pc = "poll" /\ pc' # "poll") => pc' \in {"handler", "sleep"}
       /\ (pc = "poll" /\ pc' = "sleep")
             => (batch' = <<>> /\ (fetched' = fetched
                                      \/ storeErrs' # storeErrs))
       /\ (pc = "handler" /\ pc' # "handler") => pc' = "sleep"
       /\ (pc = "handler" /\ pc' = "sleep")
             => \/ idx' = Len(batch) /\ batch[idx'].id \in returned'
                \/ batch[idx].id \in raised'
                \/ storeErrs' # storeErrs]_vars

\* C31 happens: after a poll that failed, a later poll fetched two rows,
\* both handlers returned and the loop is in its sleep
C31_Witness ==
    /\ pc = "sleep"
    /\ storeErrs = <<"poll">>
    /\ Len(batch) = 2
    /\ idx = 2
    /\ \A j \in 1..2 : batch[j].id \in returned

\* the user id the FAST_USER_ID value names for cmd_start, 0 if it names none
StartFastId ==
    CASE FAST_USER_ID_RAW \in {"1", " 1"} -> 1
      [] FAST_USER_ID_RAW = "2" -> 2
      [] OTHER -> 0

\* C33: a /start of the user the FAST_USER_ID value names removes every row
\* of that user and no other row; a /start of anyone else leaves the table
\* as it is, rows still due to fire included.
C33_StartPurgesTestUserOnly ==
    [][starts' # starts =>
          LET u == lastStart'[1] IN
          IF u = StartFastId
          THEN /\ \A r \in store' : r.user_id # u
               /\ store' = {r \in store : r.user_id # u}
          ELSE /\ store' = store
               /\ \A i \in 1..IdBound :
                     DueUndelivered(i) => DueUndelivered(i)']_vars

\* C33 happens: the test user sent /start while both users had rows; the
\* test user's rows are gone, the other user's are there
C33_Witness ==
    /\ lastStart = <<1>>
    /\ StartFastId = 1
    /\ purged # {}
    /\ \A r \in store : r.user_id = 2
    /\ \E r \in store : r.delivered = 0

\* C32: a schedule_message(u, k) removes only undelivered rows of (u, k),
\* keeps every other row as it is (rows of other users, of other kinds, and
\* delivered rows), and adds exactly one row, the new undelivered row of
\* (u, k).
C32_ScheduleFrame ==
    [][(calls' # calls /\ lastCall' # <<>>) =>
          LET c == lastCall'[1] IN
          /\ store \ store' \subseteq UndeliveredOf(store, c.user_id, c.kind)
          /\ \A r \in store :
                (r.user_id # c.user_id \/ r.kind # c.kind \/ r.delivered = 1)
                    => r \in store'
          /\ Cardinality(store' \ store) = 1
          /\ \A r \in store' \ store :
                /\ r.id = c.id
                /\ r.user_id = c.user_id
                /\ r.kind = c.kind
                /\ r.delivered = 0
          /\ \A r \in store : r.id # c.id]_vars

\* C32 happens: the last call was made while the table held a delivered row
\* of the same user and kind, a row of the same user and another kind and a
\* row of another user; all three are there next to the new row
C32_Witness ==
    /\ lastCall # <<>>
    /\ lastCall[1].at = now
    /\ \E r \in store : r.id = lastCall[1].id /\ r.delivered = 0
    /\ \E r \in store : /\ r.id < lastCall[1].id
                         /\ r.user_id = lastCall[1].user_id
                         /\ r.kind = lastCall[1].kind
                         /\ r.delivered = 1
    /\ \E r \in store : /\ r.id < lastCall[1].id
                         /\ r.user_id = lastCall[1].user_id
                         /\ r.kind # lastCall[1].kind
                         /\ r.delivered = 0

\* C34 as stated: a token generated for any user verifies as long as the
\* time of the check is not past its expiry, and is rejected afterwards.
C34_TokenRoundTrip ==
    \A c \in checks :
        c.ok = (c.at <= ParseDecimal(c.token[2]))
====
